---- MODULE Spec2Model ----
(***************************************************************************)
(* Model of device-management/lib/device_management.c: the shadow engine   *)
(* of one client (in-flight table, senders, inbound dispatcher, delta      *)
(* dispatch, timeout reaper, connection state, delta registry) and the     *)
(* registry of clients the reaper walks.                                   *)
(*                                                                         *)
(* Threads: a caller thread (public API), the transport thread (MQTT       *)
(* callbacks) and the reaper thread (in_flight_message_house_keep_proc).   *)
(* A handler is split into steps only where another thread can interleave: *)
(* at the acquisition of a mutex and between finding a slot and completing *)
(* it.  Steps that touch only a thread's locals are merged into the next   *)
(* step that touches shared state.                                         *)
(*                                                                         *)
(* Time: clock counts sub-second steps, Res of them per second; time()     *)
(* returns whole seconds.  Handlers take no time; the reaper sleeps 1 s.   *)
(***************************************************************************)
EXTENDS Integers, Sequences, FiniteSets, TLC

\* ------------------------------------------------------------------ bounds
MAX_IN_FLIGHT_MESSAGE == 2

MAX_SHADOW_PROPERTY_HANDLER == 2

MAX_CLIENT == 2

MaxRequests == 3

TimedRequests == 2

MaxTimeout == 1

Res == 2

MaxClock == 8

\* ------------------------------------------------------- program constants
MAX_REQUEST_ID_LENGTH == 64

NULL == "NULL"

NoMutexOwner == "none"

Actions == {"SHADOW_UPDATE", "SHADOW_GET", "SHADOW_DELETE"}

Timeouts == 0..MaxTimeout

Slots == 1..MAX_IN_FLIGHT_MESSAGE

Requests == 1..MaxRequests

\* ------------------------------------------------------------- strings
\* tolower() on the characters request ids are made of
tolower(ch) ==
    CASE ch = "A" -> "a"
      [] ch = "B" -> "b"
      [] ch = "C" -> "c"
      [] ch = "D" -> "d"
      [] OTHER -> ch

Min(a, b) == IF a < b THEN a ELSE b

\* strncasecmp(s1, s2, n) == 0 : the first n characters (or the whole
\* strings when shorter) are equal up to case
strncasecmp_eq(s1, s2, n) ==
    /\ Min(Len(s1), n) = Min(Len(s2), n)
    /\ \A k \in 1..Min(Len(s1), n) : tolower(s1[k]) = tolower(s2[k])

\* uuid_generate + uuid_unparse: a fresh lower-case string per call
HexDigits == <<"a", "b", "c", "d">>

uuid_unparse(n) == << HexDigits[n] >>

\* strncpy(dst, src, MAX_REQUEST_ID_LENGTH)
strncpy(src, n) == SubSeq(src, 1, Min(Len(src), n))

\* ------------------------------------------------------------- topics
\* topic_contract_create: the topics below baidu/iot/shadow/<deviceName>/
TopicContract ==
    [ update         |-> <<"update">>,
      updateAccepted |-> <<"update", "accepted">>,
      updateRejected |-> <<"update", "rejected">>,
      get            |-> <<"get">>,
      getAccepted    |-> <<"get", "accepted">>,
      getRejected    |-> <<"get", "rejected">>,
      delete         |-> <<"delete">>,
      deleteAccepted |-> <<"delete", "accepted">>,
      deleteRejected |-> <<"delete", "rejected">>,
      delta          |-> <<"delta">>,
      deltaRejected  |-> <<"delta", "rejected">> ]

SUB_TOPIC_COUNT == 7

\* t->subTopics as topic_contract_create fills it
subTopics ==
    << TopicContract.updateAccepted, TopicContract.updateRejected,
       TopicContract.getAccepted, TopicContract.getRejected,
       TopicContract.getAccepted, TopicContract.getRejected,
       TopicContract.delta >>

\* strncasecmp(contractTopic, topicName, strlen(contractTopic)) == 0
TopicMatches(contractTopic, topicName) ==
    /\ Len(topicName) >= Len(contractTopic)
    /\ \A k \in 1..Len(contractTopic) : contractTopic[k] = topicName[k]

\* <<action, status>> the dispatcher derives from a non-delta topic
Classify(topicName) ==
    IF TopicMatches(TopicContract.updateAccepted, topicName)
      THEN <<"SHADOW_UPDATE", "SHADOW_ACK_ACCEPTED">>
    ELSE IF TopicMatches(TopicContract.updateRejected, topicName)
      THEN <<"SHADOW_UPDATE", "SHADOW_ACK_REJECTED">>
    ELSE IF TopicMatches(TopicContract.getAccepted, topicName)
      THEN <<"SHADOW_GET", "SHADOW_ACK_ACCEPTED">>
    ELSE IF TopicMatches(TopicContract.getRejected, topicName)
      THEN <<"SHADOW_GET", "SHADOW_ACK_REJECTED">>
    ELSE <<"SHADOW_INVALID", "SHADOW_ACK_ACCEPTED">>

\* topic a request of the given action is published on
SendTopic(action) ==
    CASE action = "SHADOW_UPDATE" -> TopicContract.update
      [] action = "SHADOW_GET"    -> TopicContract.get
      [] action = "SHADOW_DELETE" -> TopicContract.delete

\* ------------------------------------------------------------- payloads
\* a JSON item that is absent (cJSON_GetObjectItem returns NULL)
NoItem == <<>>

\* ids a broker reply can carry: the generated ones, an upper-case form of
\* the first, and one that is never generated
ReplyIds ==
    { uuid_unparse(n) : n \in Requests } \cup { <<"A">>, <<"x">> }

\* the "desired" item of a payload: absent, or an object with some of the
\* keys below
DesiredKeys == {"k", "j"}

NoDesired == [ present |-> FALSE, keys |-> {} ]

Desireds == {NoDesired} \cup [ present : {TRUE}, keys : SUBSET DesiredKeys ]

\* result of cJSON_Parse: NULL on a parse failure (parsed = FALSE), else the
\* object's items
NullPayload ==
    [ parsed |-> FALSE, requestId |-> NoItem, code |-> NoItem, message |-> NoItem,
      desired |-> NoDesired ]

Payloads ==
    {NullPayload} \cup
    [ parsed    : {TRUE},
      requestId : ReplyIds \cup {NoItem},
      code      : {NoItem, <<"E">>},
      message   : {NoItem, <<"m">>},
      desired   : {NoDesired} ]

\* payloads of delta messages: the broker's request id (or none) and the
\* desired object (or none), and the payload that did not parse
DeltaPayloads ==
    {NullPayload} \cup
    [ parsed    : {TRUE},
      requestId : {NoItem, <<"x">>},
      code      : {NoItem},
      message   : {NoItem},
      desired   : Desireds ]

\* payloads of well-formed replies: requestId, code and message present
FullPayloads ==
    { p \in Payloads : p.requestId # NoItem /\ p.code # NoItem /\ p.message # NoItem }

\* cJSON_GetObjectItem(payload, key): NULL object or absent key gives NULL
cJSON_GetObjectItem(payload, key) ==
    IF ~payload.parsed THEN NoItem
    ELSE CASE key = "requestId" -> payload.requestId
           [] key = "code"      -> payload.code
           [] key = "message"   -> payload.message

\* cJSON_GetObjectItemCaseSensitive(payload, "desired")
GetDesired(payload) == IF ~payload.parsed THEN NoDesired ELSE payload.desired

\* cJSON_GetObjectItemCaseSensitive(desired, key) != NULL
HasProperty(desired, key) == desired.present /\ key \in desired.keys

\* the six reply topics of the topic contract
ReplyTopics ==
    { TopicContract.updateAccepted, TopicContract.updateRejected,
      TopicContract.getAccepted, TopicContract.getRejected,
      TopicContract.deleteAccepted, TopicContract.deleteRejected }

\* topics an inbound non-delta message can arrive on
InboundTopics == ReplyTopics \cup { TopicContract.update }

\* ------------------------------------------------------------- state
VARIABLES
    vault,          \* c->messages.vault : the in-flight table
    messagesMutex,  \* c->messages.mutex : owning thread or "none"
    clock,          \* wall time in sub-second steps
    nextUuid,       \* number of the next uuid_generate result
    pcCaller,       \* caller thread in shadow_send: "idle" | "publish"
    call,           \* locals of device_management_shadow_send
    lastRc,         \* return code of the last update/get/delete
    published,      \* request ids of the messages that reached the broker
    pcTransport,    \* transport thread: "idle" | "fire"
    resp,           \* locals of device_management_shadow_handle_response
    handleRc,       \* outcome of the last mqtt_on_message_arrived
    pcReaper,       \* reaper thread: "sleep" | "keep" | "fire"
    now,            \* local of in_flight_message_house_keep
    ri,             \* its loop index
    wakeAt,         \* clock value at which sleep(1) of the reaper ends
    acks,           \* per request (callbackContext): number of callback calls
    crashed,        \* the process has died on a NULL or wild dereference
    mqtt,           \* transport: "disconnected" | "connecting" | "connected"
    hasSubscribed,  \* c->hasSubscribed
    errorMessage,   \* c->errorMessage
    pcConnect,      \* device_management_connect: "idle" | "wait" | "check"
    connectRc,      \* its last return code
    onConnectedDue, \* the transport owes the call of mqtt_on_connected
    topicContract,  \* c->topicContract: "valid" | "garbage"
    properties,     \* c->properties : vault[0..index-1] as a sequence
    registerRc,     \* last return code of register_delta
    delta,          \* payload of the last device_management_delta_arrived
    deltaLog,       \* the handler calls it made, in order
    outbox,         \* messages it handed to MQTTAsync_sendMessage
    subscribed,     \* topics the broker holds for the client's session
    members,        \* allClients.members : NULL, this client "c" or another one
    groupMutex,     \* allClients.mutex : owning thread or "none"
    pcDestroy,      \* device_management_destroy: "idle" | "removed" | "returned"
    propertiesMutex, \* c->properties.mutex : owning thread or "none"
    clientMutex,    \* c->mutex : owning thread or "none"
    running,        \* per thread: the operation it is in and its next lock event
    live            \* clients device_management_create returned SUCCESS for,
                    \* device_management_destroy not yet called

engineVars ==
    << vault, messagesMutex, clock, nextUuid, pcCaller, call, lastRc, published,
       pcTransport, resp, handleRc, pcReaper, now, ri, wakeAt, acks, crashed >>

connVars ==
    << mqtt, hasSubscribed, errorMessage, pcConnect, connectRc,
       onConnectedDue, topicContract, properties, registerRc >>

deltaVars == << delta, deltaLog, outbox >>

subVars == << subscribed >>

groupVars == << members, groupMutex, pcDestroy >>

lockVars == << propertiesMutex, clientMutex, running >>

createVars == << live >>

extVars == << deltaVars, subVars, groupVars, lockVars, createVars >>

vars == << engineVars, connVars, extVars >>

\* ------------------------------------------------------------- helpers
\* time(): whole seconds
time == clock \div Res

\* a lock that never blocks
MutexAlwaysFree(m) == TRUE

\* pthread_mutex_lock(m) can return
MutexFree(m) == m = NoMutexOwner

\* MQTTAsync_isConnected(c->mqttClient)
MQTTAsync_isConnected == mqtt = "connected"

\* device_management_is_connected2 without the subscription flag
is_connected2_ignoring_subscription == MQTTAsync_isConnected

\* c->topicContract can be read: topic_contract_create ends without a return
\* statement, so device_management_create stores the allocated contract or
\* whatever the return register held
ContractReadable == topicContract = "valid"

\* device_management_is_connected2
device_management_is_connected2 == MQTTAsync_isConnected /\ hasSubscribed

\* a slot after device_management_create: free, the other fields never read
\* before in_flight_message_add writes them.  at is the instant of the
\* insertion in sub-second steps (history; timestamp is what the code keeps)
FreeSlot ==
    [ requestId |-> <<>>, action |-> "SHADOW_INVALID", callback |-> NULL,
      callbackContext |-> 0, timestamp |-> 0, at |-> 0, timeout |-> 0,
      free |-> TRUE ]

NoCall == [ requestId |-> <<>>, action |-> "SHADOW_INVALID", topic |-> <<>> ]

NoResp ==
    [ requestId |-> <<>>, action |-> "SHADOW_INVALID",
      status |-> "SHADOW_ACK_ACCEPTED", payload |-> NullPayload, i |-> 0 ]

Occupied(table) == { i \in Slots : ~table[i].free }

\* smallest element of a non-empty set of slot numbers: where a loop over
\* i = 0 .. MAX-1 stops first
First(S) == CHOOSE i \in S : \A j \in S : i <= j

\* an insertion that takes slot 1 when no slot is free
in_flight_message_add_overwriting(table, requestId, action, callback, context, timeout) ==
    LET freeSlots == { i \in Slots : table[i].free }
        target == IF freeSlots = {} THEN 1 ELSE First(freeSlots)
    IN [ table |-> [ table EXCEPT ![target] =
                       [ requestId       |-> strncpy(requestId, MAX_REQUEST_ID_LENGTH),
                         action          |-> action,
                         callback        |-> callback,
                         callbackContext |-> context,
                         timestamp       |-> time,
                         at              |-> clock,
                         timeout         |-> timeout,
                         free            |-> FALSE ] ],
         rc |-> "SUCCESS" ]

\* in_flight_message_add: the table after the call and the return code
in_flight_message_add(table, requestId, action, callback, context, timeout) ==
    LET freeSlots == { i \in Slots : table[i].free } IN
    IF freeSlots = {}
      THEN [ table |-> table, rc |-> "TOO_MANY_IN_FLIGHT_MESSAGE" ]
      ELSE [ table |-> [ table EXCEPT ![First(freeSlots)] =
                           [ requestId       |-> strncpy(requestId, MAX_REQUEST_ID_LENGTH),
                             action          |-> action,
                             callback        |-> callback,
                             callbackContext |-> context,
                             timestamp       |-> time,
                             at              |-> clock,
                             timeout         |-> timeout,
                             free            |-> FALSE ] ],
             rc |-> "SUCCESS" ]

\* slots the loop of device_management_shadow_handle_response matches
MatchingSlots(table, requestId) ==
    { i \in Slots : /\ ~table[i].free
                    /\ strncasecmp_eq(table[i].requestId, requestId,
                                      MAX_REQUEST_ID_LENGTH) }

\* expiry with >= in place of >
ExpiredSlotsAtDeadline(table, from, t) ==
    { i \in Slots : /\ i >= from
                    /\ ~table[i].free
                    /\ (t - table[i].timestamp) >= table[i].timeout }

\* slots the loop of in_flight_message_house_keep expires, from index from
ExpiredSlots(table, from, t) ==
    { i \in Slots : /\ i >= from
                    /\ ~table[i].free
                    /\ (t - table[i].timestamp) > table[i].timeout }

\* the arguments of c->messages.vault[i].callback(action, status, &ack,
\* c->messages.vault[i].callbackContext) in
\* device_management_shadow_handle_response: action and status are the
\* function's parameters, which the dispatcher derived from the topic
ResponseCall(r, slot) ==
    [ action |-> r.action, status |-> r.status, context |-> slot.callbackContext ]

\* the arguments of the callback in in_flight_message_house_keep:
\* callback(vault[i].action, SHADOW_ACK_TIMEOUT, NULL, vault[i].callbackContext)
TimeoutCall(slot) ==
    [ action |-> slot.action, status |-> "SHADOW_ACK_TIMEOUT",
      context |-> slot.callbackContext ]

\* callback(action, status, ack, context) is called
Invoke(count, context) == [ count EXCEPT ![context] = @ + 1 ]

\* c->messages.vault[i].free = true
Release(table, i) == [ table EXCEPT ![i].free = TRUE ]

\* ------------------------------------------------------------- caller thread
\* a sender that publishes first and leaves the insertion for later
SendAddPublishFirst(action, callback, timeout) ==
    /\ ~crashed
    /\ pcCaller = "idle"
    /\ pcConnect = "idle"
    /\ pcDestroy = "idle"
    /\ nextUuid <= MaxRequests
    /\ nextUuid' = nextUuid + 1
    /\ published' = published \cup { [ requestId |-> uuid_unparse(nextUuid) ] }
    /\ pcCaller' = "publish"
    /\ call' = [ requestId |-> uuid_unparse(nextUuid), action |-> action,
                 topic |-> SendTopic(action) ]
    /\ UNCHANGED << vault, messagesMutex, clock, lastRc, pcTransport, resp,
                    handleRc, pcReaper, now, ri, wakeAt, acks, crashed, connVars, extVars >>

\* device_management_shadow_update / _get / _delete, up to the return of
\* in_flight_message_add: uuid_generate, topic choice (a read through
\* c->topicContract), insertion under the in-flight mutex.  A failed
\* insertion returns at once.
SendAdd(action, callback, timeout) ==
    /\ ~crashed
    /\ pcCaller = "idle"
    /\ pcConnect = "idle"
    /\ pcDestroy = "idle"
    /\ nextUuid <= MaxRequests
    /\ clock + (timeout + 2) * Res <= MaxClock
    /\ IF ~ContractReadable
         THEN /\ crashed' = TRUE
              /\ UNCHANGED << vault, nextUuid, pcCaller, call, lastRc >>
         ELSE /\ MutexFree(messagesMutex)
              /\ LET requestId == uuid_unparse(nextUuid)
                     r == in_flight_message_add(vault, requestId, action, callback,
                                                nextUuid, timeout)
                 IN /\ nextUuid' = nextUuid + 1
                    /\ vault' = r.table
                    /\ IF r.rc = "SUCCESS"
                         THEN /\ pcCaller' = "publish"
                              /\ call' = [ requestId |-> requestId, action |-> action,
                                           topic |-> SendTopic(action) ]
                              /\ UNCHANGED lastRc
                         ELSE /\ lastRc' = r.rc
                              /\ UNCHANGED << pcCaller, call >>
              /\ UNCHANGED crashed
    /\ UNCHANGED << messagesMutex, clock, published, pcTransport, resp, handleRc,
                    pcReaper, now, ri, wakeAt, acks, connVars, extVars >>

\* rc of MQTTAsync_sendMessage: the transport refuses a message while it is
\* disconnected and may fail otherwise
SendMessageResults ==
    IF MQTTAsync_isConnected THEN {"MQTTASYNC_SUCCESS", "MQTTASYNC_FAILURE"}
    ELSE {"MQTTASYNC_DISCONNECTED"}

\* what becomes of a message MQTTAsync_sendMessage was called with: refused
\* at once (rc is not MQTTASYNC_SUCCESS), or accepted and later reported by
\* mqtt_on_publish_success (it reached the broker) or by
\* mqtt_on_publish_failure (it did not).  Both callbacks only log and free
\* their context
PublishFates(rc) ==
    IF rc = "MQTTASYNC_SUCCESS"
      THEN {"mqtt_on_publish_success", "mqtt_on_publish_failure"}
      ELSE {"refused"}

\* a sender that takes the entry back when the publish fails
SendPublishRollingBack ==
    /\ ~crashed
    /\ pcCaller = "publish"
    /\ MutexFree(messagesMutex)
    /\ \E rc \in SendMessageResults : \E fate \in PublishFates(rc) :
         IF fate = "mqtt_on_publish_success"
           THEN /\ published' = published \cup { [ requestId |-> call.requestId ] }
                /\ lastRc' = "SUCCESS"
                /\ UNCHANGED vault
           ELSE /\ vault' = [ i \in Slots |->
                              IF vault[i].requestId = call.requestId
                                THEN Release(vault, i)[i] ELSE vault[i] ]
                /\ lastRc' = "FAILURE"
                /\ UNCHANGED published
    /\ pcCaller' = "idle"
    /\ call' = NoCall
    /\ UNCHANGED << messagesMutex, clock, nextUuid, pcTransport, resp,
                    handleRc, pcReaper, now, ri, wakeAt, acks, crashed, connVars, extVars >>

\* device_management_shadow_send_json and the return of shadow_send: the
\* payload with call.requestId goes to MQTTAsync_sendMessage on call.topic;
\* the result of the publish is logged and dropped, the call returns SUCCESS
SendPublish ==
    /\ ~crashed
    /\ pcCaller = "publish"
    /\ \E rc \in SendMessageResults : \E fate \in PublishFates(rc) :
         published' = IF fate = "mqtt_on_publish_success"
                        THEN published \cup { [ requestId |-> call.requestId ] }
                        ELSE published
    /\ lastRc' = "SUCCESS"
    /\ pcCaller' = "idle"
    /\ call' = NoCall
    /\ UNCHANGED << vault, messagesMutex, clock, nextUuid, pcTransport, resp,
                    handleRc, pcReaper, now, ri, wakeAt, acks, crashed, connVars, extVars >>

\* ------------------------------------------------------------- transport thread
\* mqtt_on_message_arrived on a non-delta topic: classification (reads
\* through c->topicContract), request id,
\* and device_management_shadow_handle_response up to the first occupied
\* slot whose id matches (lock, loop); without a match unlock and return
MessageArrived(topicName, payload) ==
    /\ ~crashed
    /\ pcTransport = "idle"
    /\ LET cls == Classify(topicName)
           requestId == cJSON_GetObjectItem(payload, "requestId")
           m == MatchingSlots(vault, requestId)
       IN IF ~ContractReadable
            THEN /\ crashed' = TRUE
                 /\ UNCHANGED << handleRc, pcTransport, resp, messagesMutex >>
          ELSE IF cls[1] = "SHADOW_INVALID"
            THEN /\ handleRc' = "Unexpected topic"
                 /\ UNCHANGED << pcTransport, resp, messagesMutex, crashed >>
          ELSE IF requestId = NoItem
            THEN /\ handleRc' = "cannot find request id"
                 /\ UNCHANGED << pcTransport, resp, messagesMutex, crashed >>
          ELSE /\ MutexFree(messagesMutex)
               /\ UNCHANGED crashed
               /\ IF m = {}
                    THEN /\ handleRc' = "NO_MATCHING_IN_FLIGHT_MESSAGE"
                         /\ UNCHANGED << pcTransport, resp, messagesMutex >>
                    ELSE /\ messagesMutex' = "transport"
                         /\ pcTransport' = "fire"
                         /\ resp' = [ requestId |-> requestId, action |-> cls[1],
                                      status |-> cls[2], payload |-> payload,
                                      i |-> First(m) ]
                         /\ UNCHANGED handleRc
    /\ UNCHANGED << vault, clock, nextUuid, pcCaller, call, lastRc, published,
                    pcReaper, now, ri, wakeAt, acks, connVars, subVars, groupVars, lockVars, createVars >>

\* outcomes of reading ->valuestring through the NULL that
\* cJSON_GetObjectItem returned: the process dies, or the read yields garbage
NullReadOutcomes == {"crash", "garbage"}

\* device_management_shadow_handle_response, the body of the matching branch:
\* build the ack, call the callback (a NULL callback kills the process), free
\* the slot, unlock, return
HandleFire ==
    /\ ~crashed
    /\ pcTransport = "fire"
    /\ LET slot == vault[resp.i]
           nullRead == /\ resp.status = "SHADOW_ACK_REJECTED"
                       /\ \/ cJSON_GetObjectItem(resp.payload, "code") = NoItem
                          \/ cJSON_GetObjectItem(resp.payload, "message") = NoItem
       IN \E outcome \in (IF nullRead THEN NullReadOutcomes ELSE {"ok"}) :
            IF outcome = "crash" \/ slot.callback = NULL
              THEN /\ crashed' = TRUE
                   /\ UNCHANGED << vault, messagesMutex, pcTransport, resp,
                                   handleRc, acks >>
              ELSE /\ acks' = Invoke(acks, ResponseCall(resp, slot).context)
                   /\ vault' = Release(vault, resp.i)
                   /\ messagesMutex' = NoMutexOwner
                   /\ handleRc' = "SUCCESS"
                   /\ pcTransport' = "idle"
                   /\ resp' = NoResp
                   /\ UNCHANGED crashed
    /\ UNCHANGED << clock, nextUuid, pcCaller, call, lastRc, published,
                    pcReaper, now, ri, wakeAt, connVars, extVars >>

\* ------------------------------------------------------------- delta dispatch
\* what a delta handler returns: NULL or a UserDefinedError
NoError == [ code |-> NoItem, message |-> NoItem ]

\* the UserDefinedError handler k returns when it rejects a delta
UserDefinedError(k) == [ code |-> << "E", k >>, message |-> << "m", k >> ]

\* what the handlers return when called: NULL or their error, one result
\* per handler
HandlerReturns ==
    { [ k \in 1..MAX_SHADOW_PROPERTY_HANDLER |->
          IF rejects[k] THEN UserDefinedError(k) ELSE NoError ] :
        rejects \in [ 1..MAX_SHADOW_PROPERTY_HANDLER -> BOOLEAN ] }

\* the arguments of one handler call: cb(NULL, desired) for a root handler,
\* cb(key, property) for a keyed one; item names what the second argument
\* points at within the desired object (NULL: the whole object)
HandlerCall(i, key, desired, error) ==
    [ handler |-> i, name |-> key, item |-> key, of |-> desired, error |-> error ]

\* a loop that goes on after a handler has returned an error
DeltaLoopWithoutBreak(handlers, i, desired, rets) ==
    LET Loop[k \in 1..(Len(handlers) + 1)] ==
          IF k > Len(handlers) THEN <<>>
          ELSE IF handlers[k].key = NULL \/ HasProperty(desired, handlers[k].key)
            THEN << HandlerCall(k, handlers[k].key, desired, rets[k]) >> \o Loop[k + 1]
            ELSE Loop[k + 1]
    IN Loop[i]

\* a loop that calls every handler, whether its key is in desired or not
DeltaLoopCallingAll(handlers, i, desired, rets) ==
    LET Loop[k \in 1..(Len(handlers) + 1)] ==
          IF k > Len(handlers) THEN <<>>
          ELSE IF rets[k] # NoError
            THEN << HandlerCall(k, handlers[k].key, desired, rets[k]) >>
            ELSE << HandlerCall(k, handlers[k].key, desired, rets[k]) >> \o Loop[k + 1]
    IN Loop[i]

\* the loop of device_management_delta_arrived over c->properties.vault from
\* index i: the calls it makes, in order.  rets[k] is what handler k returns
\* when called
DeltaLoop(handlers, i, desired, rets) ==
    LET Loop[k \in 1..(Len(handlers) + 1)] ==
          IF k > Len(handlers) THEN <<>>
          ELSE IF handlers[k].key = NULL \/ HasProperty(desired, handlers[k].key)
            THEN IF rets[k] # NoError
                   THEN << HandlerCall(k, handlers[k].key, desired, rets[k]) >>
                   ELSE << HandlerCall(k, handlers[k].key, desired, rets[k]) >>
                          \o Loop[k + 1]
            ELSE Loop[k + 1]
    IN Loop[i]

\* the value of error after the loop
LoopError(calls) ==
    IF calls = <<>> THEN NoError ELSE calls[Len(calls)].error

\* a rejection that leaves the request id out
RejectionWithoutRequestId(requestId, error, rc) ==
    [ topic |-> TopicContract.deltaRejected, requestId |-> NoItem,
      code |-> error.code, message |-> error.message, rc |-> rc ]

\* the message device_management_delta_arrived hands to
\* device_management_shadow_send_json for a handler's error, with the result
\* of MQTTAsync_sendMessage
Rejection(requestId, error, rc) ==
    [ topic |-> TopicContract.deltaRejected, requestId |-> requestId,
      code |-> error.code, message |-> error.message, rc |-> rc ]

\* device_management_delta_arrived: message_get_request_id reads
\* ->valuestring of the requestId item (NULL when the item is absent or the
\* payload did not parse), the loop runs under the properties mutex, a
\* handler's error is published on delta/rejected
DeltaArrived(payload) ==
    /\ ~crashed
    /\ pcTransport = "idle"
    /\ LET item == cJSON_GetObjectItem(payload, "requestId")
           desired == GetDesired(payload)
       IN \E outcome \in (IF item = NoItem THEN NullReadOutcomes ELSE {"ok"}),
             rets \in HandlerReturns,
             rc \in SendMessageResults :
            IF outcome = "crash"
              THEN /\ crashed' = TRUE
                   /\ UNCHANGED << delta, deltaLog, outbox, handleRc >>
              ELSE LET requestId == IF outcome = "garbage" THEN <<"garbage">> ELSE item
                       calls == DeltaLoop(properties, 1, desired, rets)
                       error == LoopError(calls)
                   IN /\ delta' = payload
                      /\ deltaLog' = calls
                      /\ outbox' = IF error # NoError
                                     THEN << Rejection(requestId, error, rc) >>
                                     ELSE <<>>
                      /\ handleRc' = "delta"
                      /\ UNCHANGED crashed
    /\ UNCHANGED << vault, messagesMutex, clock, nextUuid, pcCaller, call, lastRc,
                    published, pcTransport, resp, pcReaper, now, ri, wakeAt, acks,
                    connVars, subVars, groupVars, lockVars, createVars >>

\* mqtt_on_message_arrived: a topic that begins with the delta topic goes to
\* device_management_delta_arrived, any other topic to the reply branch
mqtt_on_message_arrived(topicName, payload) ==
    IF ContractReadable /\ TopicMatches(TopicContract.delta, topicName)
      THEN DeltaArrived(payload)
      ELSE /\ MessageArrived(topicName, payload)
           /\ UNCHANGED deltaVars

\* ------------------------------------------------------------- reaper thread
\* a registry lock that never blocks
GroupMutexIgnored == TRUE

\* pthread_mutex_lock(&allClients.mutex) can return
GroupMutexFree == MutexFree(groupMutex)

\* client_group_remove: the first entry that holds the client becomes NULL
client_group_remove(group, client) ==
    LET held == { i \in 1..MAX_CLIENT : group[i] = client } IN
    IF held = {} THEN group ELSE [ group EXCEPT ![First(held)] = NULL ]

\* the loop of in_flight_message_house_keep over table, from index from, up
\* to the next expired slot; at the end of the table unlock, return to
\* client_group_iterate, which unlocks the registry, and sleep(1)
ReaperAdvance(table, from, t) ==
    LET e == ExpiredSlots(table, from, t) IN
    IF e = {}
      THEN /\ messagesMutex' = NoMutexOwner
           /\ groupMutex' = NoMutexOwner
           /\ pcReaper' = "sleep"
           /\ wakeAt' = clock + Res
           /\ ri' = 0
      ELSE /\ messagesMutex' = "reaper"
           /\ pcReaper' = "fire"
           /\ ri' = First(e)
           /\ UNCHANGED << wakeAt, groupMutex >>

\* in_flight_message_house_keep_proc wakes from sleep(1); client_group_iterate
\* takes the registry mutex and walks the members.  For this client it enters
\* in_flight_message_house_keep, which reads the time; a registry without the
\* client is walked to its end, unlocked, and the thread sleeps again
ReaperWake ==
    /\ ~crashed
    /\ pcReaper = "sleep"
    /\ clock >= wakeAt
    /\ GroupMutexFree
    /\ IF \E i \in 1..MAX_CLIENT : members[i] = "c"
         THEN /\ groupMutex' = "reaper"
              /\ pcReaper' = "keep"
              /\ now' = time
              /\ UNCHANGED wakeAt
         ELSE /\ wakeAt' = clock + Res
              /\ UNCHANGED << groupMutex, pcReaper, now >>
    /\ UNCHANGED << vault, messagesMutex, clock, nextUuid, pcCaller, call, lastRc,
                    published, pcTransport, resp, handleRc, ri, acks, crashed,
                    connVars, deltaVars, subVars, members, pcDestroy, lockVars, createVars >>

\* what the reaper finds where the client was once device_management_destroy
\* has returned: freed memory
FreedReadOutcomes == {"crash", "stale"}

\* in_flight_message_house_keep takes the in-flight mutex and loops
ReaperPass ==
    /\ ~crashed
    /\ pcReaper = "keep"
    /\ MutexFree(messagesMutex)
    /\ \E outcome \in (IF pcDestroy = "returned" THEN FreedReadOutcomes ELSE {"ok"}) :
         IF outcome = "crash"
           THEN /\ crashed' = TRUE
                /\ UNCHANGED << messagesMutex, groupMutex, pcReaper, wakeAt, ri >>
           ELSE /\ ReaperAdvance(vault, 1, now)
                /\ UNCHANGED crashed
    /\ UNCHANGED << vault, clock, nextUuid, pcCaller, call, lastRc, published,
                    pcTransport, resp, handleRc, now, acks, connVars,
                    deltaVars, subVars, members, pcDestroy, lockVars, createVars >>

\* the body of the expired branch: call the callback unless it is NULL, free
\* the slot, go on with the loop
ReaperFire ==
    /\ ~crashed
    /\ pcReaper = "fire"
    /\ acks' = IF vault[ri].callback # NULL
                 THEN Invoke(acks, TimeoutCall(vault[ri]).context)
                 ELSE acks
    /\ vault' = Release(vault, ri)
    /\ ReaperAdvance(vault', ri + 1, now)
    /\ UNCHANGED << clock, nextUuid, pcCaller, call, lastRc, published,
                    pcTransport, resp, handleRc, now, crashed, connVars,
                    deltaVars, subVars, members, pcDestroy, lockVars, createVars >>

\* ------------------------------------------------------------- create
\* the results of MQTTAsync_create that device_management_create tells apart
CreateResults == {"MQTTASYNC_SUCCESS", "EXIT_FAILURE"}

\* the clients an application creates: this one and MAX_CLIENT more
Clients == {"c"} \cup { ToString(n) : n \in 1..MAX_CLIENT }

\* client_group_add: the first NULL entry takes the client; false when
\* there is none
client_group_add(group, client) ==
    LET empty == { i \in 1..MAX_CLIENT : group[i] = NULL } IN
    IF empty = {}
      THEN [ group |-> group, rc |-> FALSE ]
      ELSE [ group |-> [ group EXCEPT ![First(empty)] = client ], rc |-> TRUE ]

\* device_management_create of one more client: malloc, MQTTAsync_create,
\* the fields it assigns (hasSubscribed is not among them, the contract is
\* the value of topic_contract_create), client_group_add, whose result is
\* not looked at, return SUCCESS
device_management_create(client) ==
    /\ ~crashed
    /\ client \notin live
    /\ client = "c" => pcDestroy = "idle"
    /\ GroupMutexFree
    /\ \E rc \in CreateResults :
         IF rc = "EXIT_FAILURE"
           THEN UNCHANGED << members, live, vault, errorMessage, properties,
                             hasSubscribed, topicContract >>
           ELSE LET added == client_group_add(members, client)
                IN  /\ members' = added.group
                    /\ live' = live \cup {client}
                    /\ IF client = "c"
                         THEN /\ vault' = [ i \in Slots |-> FreeSlot ]
                              /\ errorMessage' = NULL
                              /\ properties' = << >>
                              /\ hasSubscribed' \in BOOLEAN
                              /\ topicContract' \in {"valid", "garbage"}
                         ELSE UNCHANGED << vault, errorMessage, properties,
                                           hasSubscribed, topicContract >>
    /\ UNCHANGED << messagesMutex, clock, nextUuid, pcCaller, call, lastRc,
                    published, pcTransport, resp, handleRc, pcReaper, now, ri,
                    wakeAt, acks, crashed, mqtt, pcConnect, connectRc,
                    onConnectedDue, registerRc, deltaVars, subVars, groupMutex,
                    pcDestroy, lockVars >>

\* ------------------------------------------------------------- destroy
\* device_management_destroy, first step: client_group_remove under the
\* registry mutex
DestroyRemove ==
    /\ ~crashed
    /\ pcCaller = "idle"
    /\ pcConnect = "idle"
    /\ pcDestroy = "idle"
    /\ "c" \in live
    /\ GroupMutexFree
    /\ members' = client_group_remove(members, "c")
    /\ live' = live \ {"c"}
    /\ pcDestroy' = "removed"
    /\ UNCHANGED << engineVars, connVars, deltaVars, subVars, groupMutex, lockVars >>

\* device_management_destroy, the rest: the client's strings are freed, the
\* transport is disconnected and destroyed, the contract and the client
\* are freed, the call returns.  No in-flight entry is looked at
DestroyFree ==
    /\ ~crashed
    /\ pcDestroy = "removed"
    /\ pcTransport = "idle"
    /\ mqtt' = "disconnected"
    /\ onConnectedDue' = FALSE
    /\ subscribed' = {}
    /\ pcDestroy' = "returned"
    /\ UNCHANGED << engineVars, deltaVars, members, groupMutex, topicContract,
                    hasSubscribed, errorMessage, pcConnect, connectRc, properties,
                    registerRc, lockVars, createVars >>

\* ------------------------------------------------------------- time
\* a sub-second step of wall time; handlers run to their end within a step
\* and the reaper wakes when its sleep(1) is over
Tick ==
    /\ ~crashed
    /\ clock < MaxClock
    /\ pcCaller = "idle"
    /\ pcTransport = "idle"
    /\ pcReaper = "sleep"
    /\ clock < wakeAt
    /\ clock' = clock + 1
    /\ UNCHANGED << vault, messagesMutex, nextUuid, pcCaller, call, lastRc,
                    published, pcTransport, resp, handleRc, pcReaper, now,
                    ri, wakeAt, acks, crashed, connVars, extVars >>

\* ------------------------------------------------------------- connection
\* device_management_connect up to its wait loop: MQTTAsync_connect starts
\* the connection or fails at once
ConnectStart ==
    /\ ~crashed
    /\ pcCaller = "idle"
    /\ pcConnect = "idle"
    /\ pcDestroy = "idle"
    /\ mqtt = "disconnected"
    /\ \E rc \in {"MQTTASYNC_SUCCESS", "MQTTASYNC_FAILURE"} :
         IF rc = "MQTTASYNC_SUCCESS"
           THEN /\ mqtt' = "connecting"
                /\ pcConnect' = "wait"
                /\ connectRc' = "none"
           ELSE /\ connectRc' = "FAILURE"
                /\ UNCHANGED << mqtt, pcConnect >>
    /\ UNCHANGED << engineVars, extVars, topicContract, hasSubscribed, errorMessage, onConnectedDue,
                    properties, registerRc >>

\* the loop while (!MQTTAsync_isConnected(..) && c->errorMessage == NULL) ends
ConnectWait ==
    /\ ~crashed
    /\ pcConnect = "wait"
    /\ (MQTTAsync_isConnected \/ errorMessage # NULL)
    /\ pcConnect' = "check"
    /\ UNCHANGED << engineVars, extVars, topicContract, mqtt, hasSubscribed, errorMessage, connectRc,
                    onConnectedDue, properties, registerRc >>

\* return codes of device_management_connect after the loop; without a
\* return statement on the last path the caller reads an arbitrary value
ConnectResults ==
    IF MQTTAsync_isConnected THEN {"SUCCESS"}
    ELSE IF errorMessage # NULL THEN {"FAILURE"}
    ELSE {"SUCCESS", "FAILURE"}

ConnectReturn ==
    /\ ~crashed
    /\ pcConnect = "check"
    /\ \E rc \in ConnectResults : connectRc' = rc
    /\ pcConnect' = "idle"
    /\ UNCHANGED << engineVars, extVars, topicContract, mqtt, hasSubscribed, errorMessage,
                    onConnectedDue, properties, registerRc >>

\* the transport completes a connect or an automatic reconnect:
\* MQTTAsync_isConnected turns true, mqtt_on_connect_success runs, and the
\* call of mqtt_on_connected is due on the same thread
TransportConnected ==
    /\ ~crashed
    /\ mqtt = "connecting"
    /\ pcTransport = "idle"
    /\ mqtt' = "connected"
    /\ errorMessage' = NULL
    /\ onConnectedDue' = TRUE
    /\ UNCHANGED << engineVars, extVars, topicContract, hasSubscribed, pcConnect, connectRc,
                    properties, registerRc >>

\* mqtt_on_connect_failure: the first connect fails
TransportConnectFailed ==
    /\ ~crashed
    /\ mqtt = "connecting"
    /\ pcConnect = "wait"
    /\ pcTransport = "idle"
    /\ mqtt' = "disconnected"
    /\ errorMessage' = "error"
    /\ UNCHANGED << engineVars, extVars, topicContract, hasSubscribed, pcConnect, connectRc,
                    onConnectedDue, properties, registerRc >>

\* what becomes of a subscription MQTTAsync_subscribeMany has started: the
\* broker grants it, refuses it, or does not answer within SUBSCRIBE_TIMEOUT
SubscribeOutcomes == {"granted", "refused", "timeout"}

\* mqtt_on_connected: MQTTAsync_subscribeMany (reads
\* c->topicContract->subTopics), then, unless it failed at
\* once, MQTTAsync_waitForCompletion (result unused, no onFailure callback)
\* and hasSubscribed = true
mqtt_on_connected ==
    /\ ~crashed
    /\ onConnectedDue
    /\ pcTransport = "idle"
    /\ IF ~ContractReadable
         THEN /\ crashed' = TRUE
              /\ UNCHANGED << hasSubscribed, onConnectedDue, subscribed >>
         ELSE /\ \E rc \in {"MQTTASYNC_SUCCESS", "MQTTASYNC_FAILURE"} :
                   IF rc = "MQTTASYNC_SUCCESS"
                     THEN /\ \E outcome \in SubscribeOutcomes :
                               subscribed' =
                                 IF outcome = "granted"
                                   THEN { subTopics[i] : i \in 1..SUB_TOPIC_COUNT }
                                   ELSE {}
                          /\ hasSubscribed' = TRUE
                     ELSE UNCHANGED << subscribed, hasSubscribed >>
              /\ onConnectedDue' = FALSE
              /\ UNCHANGED crashed
    /\ UNCHANGED << vault, messagesMutex, clock, nextUuid, pcCaller, call, lastRc,
                    published, pcTransport, resp, handleRc, pcReaper, now, ri,
                    wakeAt, acks, topicContract, mqtt, errorMessage, pcConnect,
                    connectRc, properties, registerRc, deltaVars, groupVars, lockVars, createVars >>

\* a connection-lost handler that also empties the in-flight table
mqtt_on_connection_lost_clearing ==
    /\ ~crashed
    /\ mqtt = "connected"
    /\ ~onConnectedDue
    /\ pcTransport = "idle"
    /\ MutexFree(messagesMutex)
    /\ mqtt' = "connecting"
    /\ hasSubscribed' = FALSE
    /\ subscribed' = {}
    /\ vault' = [ i \in Slots |-> Release(vault, i)[i] ]
    /\ UNCHANGED << messagesMutex, clock, nextUuid, pcCaller, call, lastRc, published,
                    pcTransport, resp, handleRc, pcReaper, now, ri, wakeAt, acks,
                    crashed, deltaVars, groupVars, topicContract, errorMessage,
                    pcConnect, connectRc, onConnectedDue, properties, registerRc, lockVars, createVars >>

\* mqtt_on_connection_lost; the transport reconnects by itself
\* (automaticReconnect)
mqtt_on_connection_lost ==
    /\ ~crashed
    /\ mqtt = "connected"
    /\ ~onConnectedDue
    /\ pcTransport = "idle"
    /\ mqtt' = "connecting"
    /\ hasSubscribed' = FALSE
    /\ subscribed' = {}
    /\ UNCHANGED << engineVars, deltaVars, groupVars, topicContract, errorMessage, pcConnect, connectRc,
                    onConnectedDue, properties, registerRc, lockVars, createVars >>

\* keys a delta handler is registered with; NULL matches the root
Keys == {NULL, "k"}

\* a register_delta that puts the handler into the last entry of a full
\* registry
RegisterDeltaOverwriting(key) ==
    /\ ~crashed
    /\ pcCaller = "idle"
    /\ pcConnect = "idle"
    /\ pcDestroy = "idle"
    /\ IF ~device_management_is_connected2
         THEN /\ registerRc' = "NOT_CONNECTED"
              /\ UNCHANGED properties
       ELSE IF Len(properties) >= MAX_SHADOW_PROPERTY_HANDLER
         THEN /\ properties' = [ properties EXCEPT ![Len(properties)] =
                                   [ key |-> key, cb |-> "cb" ] ]
              /\ registerRc' = "SUCCESS"
       ELSE /\ properties' = Append(properties, [ key |-> key, cb |-> "cb" ])
            /\ registerRc' = "SUCCESS"
    /\ UNCHANGED << engineVars, extVars, topicContract, mqtt, hasSubscribed, errorMessage, pcConnect,
                    connectRc, onConnectedDue >>

\* device_management_shadow_register_delta with a non-NULL callback
RegisterDelta(key) ==
    /\ ~crashed
    /\ pcCaller = "idle"
    /\ pcConnect = "idle"
    /\ pcDestroy = "idle"
    /\ IF ~device_management_is_connected2
         THEN /\ registerRc' = "NOT_CONNECTED"
              /\ UNCHANGED properties
       ELSE IF Len(properties) >= MAX_SHADOW_PROPERTY_HANDLER
         THEN /\ registerRc' = "TOO_MANY_SHADOW_PROPERTY_HANDLER"
              /\ UNCHANGED properties
       ELSE /\ properties' = Append(properties, [ key |-> key, cb |-> "cb" ])
            /\ registerRc' = "SUCCESS"
    /\ UNCHANGED << engineVars, extVars, topicContract, mqtt, hasSubscribed, errorMessage, pcConnect,
                    connectRc, onConnectedDue >>

\* ------------------------------------------------------------- mutexes
\* The four mutexes of the library and, per function that takes one, the
\* lock events of its body in program order.  A user callback is an event
\* during which the thread keeps what it holds and takes nothing.
Mutexes == {"registry", "client", "messages", "properties"}

LockThreads == {"caller1", "caller2", "transport", "reaper"}

Idle == [ op |-> "none", at |-> 0 ]

Lock(m) == [ kind |-> "lock", mutex |-> m ]

Unlock(m) == [ kind |-> "unlock", mutex |-> m ]

UserCallback == [ kind |-> "callback", mutex |-> "none" ]

\* a completion path whose callback destroys the client (client_group_remove
\* under the in-flight mutex)
handle_response_locks_destroying ==
    << Lock("messages"), Lock("registry"), Unlock("registry"), Unlock("messages") >>

device_management_register_delta_locks == << Lock("properties"), Unlock("properties") >>

client_group_add_locks == << Lock("registry"), Unlock("registry") >>

client_group_remove_locks == << Lock("registry"), Unlock("registry") >>

in_flight_message_add_locks == << Lock("messages"), Unlock("messages") >>

handle_response_locks == << Lock("messages"), UserCallback, Unlock("messages") >>

delta_arrived_locks == << Lock("properties"), UserCallback, Unlock("properties") >>

mqtt_on_connected_locks == << Lock("client"), Unlock("client") >>

mqtt_on_connection_lost_locks == << Lock("client"), Unlock("client") >>

in_flight_message_house_keep_locks ==
    << Lock("messages"), UserCallback, Unlock("messages") >>

\* client_group_iterate holds the registry over the call of fp for every
\* member; the members that are other clients have mutexes of their own
client_group_iterate_locks(group) ==
    << Lock("registry") >>
      \o (IF \E i \in 1..MAX_CLIENT : group[i] = "c"
            THEN in_flight_message_house_keep_locks
            ELSE << >>)
      \o << Unlock("registry") >>

\* the functions each thread runs: API calls on caller threads, the
\* MQTTAsync callbacks on the transport thread, the house keeper
ThreadOperations(t) ==
    CASE t \in {"caller1", "caller2"} ->
           { "device_management_register_delta", "device_management_create",
             "device_management_destroy", "device_management_shadow_send" }
      [] t = "transport" ->
           { "device_management_shadow_handle_response",
             "device_management_delta_arrived", "mqtt_on_connected",
             "mqtt_on_connection_lost" }
      [] t = "reaper" -> { "in_flight_message_house_keep_proc" }

LockScript(op) ==
    CASE op = "device_management_register_delta" -> device_management_register_delta_locks
      [] op = "device_management_create" -> client_group_add_locks
      [] op = "device_management_destroy" -> client_group_remove_locks
      [] op = "device_management_shadow_send" -> in_flight_message_add_locks
      [] op = "device_management_shadow_handle_response" -> handle_response_locks
      [] op = "device_management_delta_arrived" -> delta_arrived_locks
      [] op = "mqtt_on_connected" -> mqtt_on_connected_locks
      [] op = "mqtt_on_connection_lost" -> mqtt_on_connection_lost_locks
      [] op = "in_flight_message_house_keep_proc" -> client_group_iterate_locks(members)

Owner(m) ==
    CASE m = "registry" -> groupMutex
      [] m = "client" -> clientMutex
      [] m = "messages" -> messagesMutex
      [] m = "properties" -> propertiesMutex

\* pthread_mutex_lock / pthread_mutex_unlock of m by thread t
SetOwner(m, t) ==
    /\ groupMutex' = IF m = "registry" THEN t ELSE groupMutex
    /\ clientMutex' = IF m = "client" THEN t ELSE clientMutex
    /\ messagesMutex' = IF m = "messages" THEN t ELSE messagesMutex
    /\ propertiesMutex' = IF m = "properties" THEN t ELSE propertiesMutex

NextEvent(t) == LockScript(running[t].op)[running[t].at]

\* thread t enters one of its functions
LockBegin(t, op) ==
    /\ ~crashed
    /\ running[t] = Idle
    /\ op \in ThreadOperations(t)
    /\ running' = [ running EXCEPT ![t] = [ op |-> op, at |-> 1 ] ]
    /\ UNCHANGED << engineVars, connVars, deltaVars, subVars, groupVars,
                    propertiesMutex, clientMutex, createVars >>

\* thread t performs its next lock event; pthread_mutex_lock waits while
\* another thread owns the mutex
LockStep(t) ==
    /\ ~crashed
    /\ running[t] # Idle
    /\ LET e == NextEvent(t)
       IN  CASE e.kind = "lock" ->
                  /\ MutexFree(Owner(e.mutex))
                  /\ SetOwner(e.mutex, t)
             [] e.kind = "unlock" -> SetOwner(e.mutex, NoMutexOwner)
             [] e.kind = "callback" ->
                  UNCHANGED << groupMutex, clientMutex, messagesMutex, propertiesMutex >>
    /\ running' =
         [ running EXCEPT ![t] =
             IF running[t].at = Len(LockScript(running[t].op))
               THEN Idle
               ELSE [ running[t] EXCEPT !.at = @ + 1 ] ]
    /\ UNCHANGED << vault, clock, nextUuid, pcCaller, call, lastRc, published,
                    pcTransport, resp, handleRc, pcReaper, now, ri, wakeAt, acks,
                    crashed, connVars, deltaVars, subVars, members, pcDestroy,
                    createVars >>

\* ------------------------------------------------------------- initial states
\* the engine after device_management_init and device_management_create;
\* the reaper's first pass falls anywhere within the first second
EngineInit ==
    /\ vault = [ i \in Slots |-> FreeSlot ]
    /\ messagesMutex = NoMutexOwner
    /\ clock = 0
    /\ nextUuid = 1
    /\ pcCaller = "idle"
    /\ call = NoCall
    /\ lastRc = "none"
    /\ published = {}
    /\ pcTransport = "idle"
    /\ resp = NoResp
    /\ handleRc = "none"
    /\ pcReaper = "sleep"
    /\ now = 0
    /\ ri = 0
    /\ wakeAt \in 0..(Res - 1)
    /\ acks = [ n \in Requests |-> 0 ]
    /\ crashed = FALSE
    /\ groupMutex = NoMutexOwner
    /\ pcDestroy = "idle"
    /\ delta = NullPayload
    /\ deltaLog = <<>>
    /\ outbox = <<>>
    /\ propertiesMutex = NoMutexOwner
    /\ clientMutex = NoMutexOwner
    /\ running = [ t \in LockThreads |-> Idle ]

\* the client after a connect that has run to READY: the subscription of the
\* contract's topics went through, the contract is the allocated one
ConnReady ==
    /\ mqtt = "connected"
    /\ hasSubscribed = TRUE
    /\ errorMessage = NULL
    /\ pcConnect = "idle"
    /\ connectRc = "SUCCESS"
    /\ onConnectedDue = FALSE
    /\ topicContract = "valid"
    /\ properties = <<>>
    /\ registerRc = "none"
    /\ subscribed = { subTopics[i] : i \in 1..SUB_TOPIC_COUNT }

\* allClients after device_management_create has added the first client
Registered ==
    /\ members = [ i \in 1..MAX_CLIENT |-> IF i = 1 THEN "c" ELSE NULL ]
    /\ live = {"c"}

\* Spec has no reaper: its first pass is left at 0
Init == EngineInit /\ wakeAt = 0 /\ ConnReady /\ Registered

TimerInit == EngineInit /\ ConnReady /\ Registered

\* ------------------------------------------------------------- broker
LowerCase(str) == [ k \in 1..Len(str) |-> tolower(str[k]) ]

\* ids the broker can put into a message: those of the requests published to
\* it, in either case, the id of somebody else, or none
BrokerCanSend(id) ==
    \/ id = NoItem
    \/ id = <<"x">>
    \/ \E m \in published : LowerCase(id) = m.requestId

\* the transport delivers a message of the broker to mqtt_on_message_arrived
Deliver(topicName, payload) ==
    /\ MQTTAsync_isConnected
    /\ BrokerCanSend(payload.requestId)
    /\ mqtt_on_message_arrived(topicName, payload)

\* ------------------------------------------------------------- engine
\* Spec: senders and the inbound dispatcher of a READY client (no reaper)
Send == \E action \in Actions : SendAdd(action, "cb", 0)

Arrive == \E topicName \in InboundTopics, payload \in FullPayloads :
            Deliver(topicName, payload)

Next ==
    \/ Send
    \/ SendPublish
    \/ Arrive
    \/ HandleFire

Spec == Init /\ [][Next]_vars

\* TimerSpec: update requests, their replies (well-formed or without code,
\* for a known or an unknown id), the reaper and time
TimedSend ==
    /\ nextUuid <= TimedRequests
    /\ \E timeout \in Timeouts : SendAdd("SHADOW_UPDATE", "cb", timeout)

TimedReplies ==
    { p \in Payloads : /\ p.parsed
                       /\ p.requestId \in { uuid_unparse(n) : n \in 1..TimedRequests }
                                           \cup { <<"x">> }
                       /\ p.message # NoItem }

TimedArrive ==
    \E topicName \in { TopicContract.updateAccepted, TopicContract.updateRejected },
       payload \in TimedReplies :
         Deliver(topicName, payload)

TimerNext ==
    \/ TimedSend
    \/ SendPublish
    \/ TimedArrive
    \/ HandleFire
    \/ ReaperWake
    \/ ReaperPass
    \/ ReaperFire
    \/ Tick

TimerSpec == TimerInit /\ [][TimerNext]_vars

\* LiveSpec: TimerSpec with every thread scheduled again and again and time
\* going on
LiveSpec ==
    /\ TimerSpec
    /\ WF_vars(SendPublish)
    /\ WF_vars(HandleFire)
    /\ WF_vars(ReaperWake)
    /\ WF_vars(ReaperPass)
    /\ WF_vars(ReaperFire)
    /\ WF_vars(Tick)

\* ConnSpec: a client from device_management_create on: connect, the
\* transport's connection events, register_delta and update/get/delete
\* c->hasSubscribed is not set by device_management_create: malloc'ed memory;
\* c->topicContract is the value of a function without a return statement
ConnInit ==
    /\ EngineInit
    /\ wakeAt = 0
    /\ mqtt = "disconnected"
    /\ hasSubscribed \in BOOLEAN
    /\ errorMessage = NULL
    /\ pcConnect = "idle"
    /\ connectRc = "none"
    /\ onConnectedDue = FALSE
    /\ topicContract \in {"valid", "garbage"}
    /\ properties = <<>>
    /\ registerRc = "none"
    /\ subscribed = {}
    /\ Registered

Register == \E key \in Keys : RegisterDelta(key)

ConnNext ==
    \/ ConnectStart
    \/ ConnectWait
    \/ ConnectReturn
    \/ TransportConnected
    \/ TransportConnectFailed
    \/ mqtt_on_connected
    \/ mqtt_on_connection_lost
    \/ Register
    \/ Send
    \/ SendPublish

ConnSpec == ConnInit /\ [][ConnNext]_vars

\* DeltaSpec: a READY client, register_delta and the deltas of the broker
\* (with or without a request id or a desired object, or unparsable)
DeltaTopics == { TopicContract.delta }

DeltaArrive ==
    \E topicName \in DeltaTopics, payload \in DeltaPayloads :
      Deliver(topicName, payload)

DeltaNext ==
    \/ Register
    \/ DeltaArrive

DeltaSpec == Init /\ [][DeltaNext]_vars

\* DestroySpec: update requests of a READY client, the reaper, time, and
\* device_management_destroy at any moment.  The registry holds the client
\* in any slot beside other clients, or is full of other clients
\* (device_management_create ignores the result of client_group_add)
InitialMembers ==
    { g \in [ 1..MAX_CLIENT -> {NULL, "c", "other"} ] :
        \/ Cardinality({ i \in 1..MAX_CLIENT : g[i] = "c" }) = 1
        \/ \A i \in 1..MAX_CLIENT : g[i] = "other" }

DestroyInit ==
    /\ EngineInit
    /\ ConnReady
    /\ members \in InitialMembers
    /\ live = {"c"} \cup ({ members[i] : i \in 1..MAX_CLIENT } \ {NULL})

DestroyNext ==
    \/ TimedSend
    \/ SendPublish
    \/ ReaperWake
    \/ ReaperPass
    \/ ReaperFire
    \/ Tick
    \/ DestroyRemove
    \/ DestroyFree

DestroySpec == DestroyInit /\ [][DestroyNext]_vars

\* DispatchSpec: one request of a READY client, register_delta, and inbound
\* messages on every topic of the contract that is not a request topic of
\* get or delete, with replies and deltas as payloads
DispatchTopics ==
    ReplyTopics \cup
    { TopicContract.delta, TopicContract.deltaRejected, TopicContract.update }

DispatchPayloads ==
    { p \in FullPayloads : p.requestId \in { uuid_unparse(1), <<"x">> } } \cup
    { p \in DeltaPayloads : p.parsed /\ p.requestId # NoItem }

DispatchSend == nextUuid <= 1 /\ Send

DispatchArrive ==
    \E topicName \in DispatchTopics, payload \in DispatchPayloads :
      Deliver(topicName, payload)

DispatchNext ==
    \/ Register
    \/ DispatchSend
    \/ SendPublish
    \/ DispatchArrive
    \/ HandleFire

DispatchSpec == Init /\ [][DispatchNext]_vars

\* LostSpec: update requests, their well-formed replies, the reaper (first
\* pass at 0) and time, with the transport losing the connection and
\* reconnecting by itself at any moment
LostReplies ==
    { p \in TimedReplies : p.code # NoItem /\ p.requestId # <<"x">> }

LostArrive ==
    \E topicName \in { TopicContract.updateAccepted, TopicContract.updateRejected },
       payload \in LostReplies :
         Deliver(topicName, payload)

\* the automatic reconnect with a broker that grants the subscription (no
\* step of the engine reads what the broker holds)
LostReconnect ==
    /\ mqtt_on_connected
    /\ hasSubscribed' => subscribed' # {}

LostNext ==
    \/ TimedSend
    \/ SendPublish
    \/ LostArrive
    \/ HandleFire
    \/ ReaperWake
    \/ ReaperPass
    \/ ReaperFire
    \/ Tick
    \/ mqtt_on_connection_lost
    \/ TransportConnected
    \/ LostReconnect

LostSpec == Init /\ [][LostNext]_vars

\* LostLiveSpec: LostSpec with every thread scheduled again and again and
\* time going on
LostLiveSpec ==
    /\ LostSpec
    /\ WF_vars(SendPublish)
    /\ WF_vars(HandleFire)
    /\ WF_vars(ReaperWake)
    /\ WF_vars(ReaperPass)
    /\ WF_vars(ReaperFire)
    /\ WF_vars(Tick)

\* LockSpec: caller threads, the transport thread and the reaper running
\* the library's functions, seen through their mutex operations
LockNext ==
    \/ \E t \in LockThreads : \E op \in ThreadOperations(t) : LockBegin(t, op)
    \/ \E t \in LockThreads : LockStep(t)

LockSpec == Init /\ [][LockNext]_vars

\* CreateSpec: an application that creates clients and destroys this one,
\* and the reaper's passes over the registry.  allClients is a static
\* object: all entries NULL before the first create
CreateInit ==
    /\ EngineInit
    /\ wakeAt = 0
    /\ mqtt = "disconnected"
    /\ hasSubscribed = FALSE
    /\ errorMessage = NULL
    /\ pcConnect = "idle"
    /\ connectRc = "none"
    /\ onConnectedDue = FALSE
    /\ topicContract = "garbage"
    /\ properties = << >>
    /\ registerRc = "none"
    /\ subscribed = {}
    /\ members = [ i \in 1..MAX_CLIENT |-> NULL ]
    /\ live = {}

Create == \E client \in Clients : device_management_create(client)

CreateNext ==
    \/ Create
    \/ DestroyRemove
    \/ DestroyFree
    \/ ReaperWake
    \/ ReaperPass
    \/ Tick

CreateSpec == CreateInit /\ [][CreateNext]_vars

\* CompletionSpec: one request of any action, with a callback or with NULL,
\* a well-formed reply carrying its id on any reply topic, the reaper and
\* time
CompletionSend ==
    /\ nextUuid <= 1
    /\ \E action \in Actions, callback \in {"cb", NULL}, timeout \in Timeouts :
         SendAdd(action, callback, timeout)

CompletionArrive ==
    \E topicName \in ReplyTopics, payload \in LostReplies :
      Deliver(topicName, payload)

CompletionNext ==
    \/ CompletionSend
    \/ SendPublish
    \/ CompletionArrive
    \/ HandleFire
    \/ ReaperWake
    \/ ReaperPass
    \/ ReaperFire
    \/ Tick

CompletionSpec == Init /\ [][CompletionNext]_vars


\* ------------------------------------------------------------- claims
\* slots that hold request n
PendingSlots(n) ==
    { i \in Slots : ~vault[i].free /\ vault[i].callbackContext = n }

\* the reply's requestId is r, as the in-flight table compares ids
\* (case-insensitive)
IdIs(replyId, r) == LowerCase(replyId) = LowerCase(r)

\* update/get/delete has inserted request n and returned SUCCESS, and n has a
\* callback
SentWithCallback(n) ==
    /\ pcCaller = "idle"
    /\ \E i \in PendingSlots(n) : vault[i].callback # NULL

\* C1: every request whose send inserted a slot and returned SUCCESS has its
\* callback called at most once at any time, and eventually exactly once.
C1_CallbackExactlyOnce ==
    /\ [](\A n \in Requests : acks[n] <= 1)
    /\ \A n \in 1..TimedRequests : SentWithCallback(n) ~> (acks[n] = 1)

\* C2: a reply and the expiry of the same request never both call the
\* callback.  The two completions exclude each other: the thread that is
\* about to complete a slot holds the in-flight mutex, the slot is occupied
\* and its callback has not been called; once a request's callback has been
\* called no occupied slot holds the request, so the other thread finds none.
C2_ReplyAndTimeoutExclusive ==
    /\ \A n \in Requests : acks[n] <= 1
    /\ \A n \in Requests : acks[n] = 1 => PendingSlots(n) = {}
    /\ ~(pcTransport = "fire" /\ pcReaper = "fire")
    /\ pcTransport = "fire" =>
         /\ messagesMutex = "transport"
         /\ ~vault[resp.i].free
         /\ acks[vault[resp.i].callbackContext] = 0
    /\ pcReaper = "fire" =>
         /\ messagesMutex = "reaper"
         /\ ~vault[ri].free
         /\ acks[vault[ri].callbackContext] = 0

\* the reply of an expired request holds the mutex while the reaper's pass
\* is due
C2_ReplyWinsOverDueReaper ==
    /\ pcTransport = "fire"
    /\ pcReaper = "sleep"
    /\ clock >= wakeAt
    /\ resp.i \in ExpiredSlots(vault, 1, time)

\* C3: with every slot occupied the next update/get/delete returns
\* TOO_MANY_IN_FLIGHT_MESSAGE at once, publishes nothing and leaves the table
\* as it is; the number of occupied slots never exceeds MAX_IN_FLIGHT_MESSAGE.
C3_FullTableRefuses ==
    /\ [](Cardinality(Occupied(vault)) <= MAX_IN_FLIGHT_MESSAGE)
    /\ [][ (nextUuid' = nextUuid + 1 /\ Occupied(vault) = Slots) =>
             /\ lastRc' = "TOO_MANY_IN_FLIGHT_MESSAGE"
             /\ pcCaller' = "idle"
             /\ published' = published
             /\ vault' = vault ]_vars

\* a send has been refused by a full table
C3_RefusedByFullTable ==
    /\ lastRc = "TOO_MANY_IN_FLIGHT_MESSAGE"
    /\ Occupied(vault) = Slots
    /\ pcCaller = "idle"

\* C4: the entry of a request is in the table before its message is handed to
\* the transport: while the sender is about to publish r, and for every
\* message published with id r, an occupied slot holds r unless r has been
\* completed.
C4_InsertedBeforePublished ==
    /\ pcCaller = "publish" =>
         \E n \in Requests :
            /\ call.requestId = uuid_unparse(n)
            /\ (acks[n] >= 1 \/ \E i \in PendingSlots(n) :
                                    vault[i].requestId = call.requestId)
    /\ \A m \in published :
         \E n \in Requests :
            /\ m.requestId = uuid_unparse(n)
            /\ (acks[n] >= 1 \/ \E i \in PendingSlots(n) :
                                    vault[i].requestId = m.requestId)

\* a reply to a published request has found the request's slot
C4_ReplyFoundPublishedSlot ==
    /\ pcTransport = "fire"
    /\ \E m \in published : m.requestId = resp.requestId
    /\ vault[resp.i].requestId = resp.requestId

\* C5: update/get/delete on a client that is not READY returns NOT_CONNECTED,
\* inserts no entry and publishes nothing (stated for a client whose topic
\* contract can be read).
C5_SendRequiresReady ==
    [][ ( /\ ContractReadable
          /\ nextUuid' = nextUuid + 1
          /\ ~(MQTTAsync_isConnected /\ hasSubscribed) ) =>
          /\ lastRc' = "NOT_CONNECTED"
          /\ pcCaller' = "idle"
          /\ vault' = vault
          /\ published' = published ]_vars

\* C6: register_delta on a client that is not connected-and-subscribed
\* returns NOT_CONNECTED and leaves the registry as it is; on a READY client
\* with room left it appends exactly one entry at the end.
C6_RegisterDeltaRequiresReady ==
    [][ (registerRc' # registerRc \/ properties' # properties) =>
          IF ~(MQTTAsync_isConnected /\ hasSubscribed)
            THEN /\ registerRc' = "NOT_CONNECTED"
                 /\ properties' = properties
          ELSE IF Len(properties) < MAX_SHADOW_PROPERTY_HANDLER
            THEN /\ registerRc' = "SUCCESS"
                 /\ Len(properties') = Len(properties) + 1
                 /\ SubSeq(properties', 1, Len(properties)) = properties
          ELSE properties' = properties ]_vars

\* a handler was registered while READY, and a later call on the client, no
\* longer READY, was refused
C6_RefusedAfterRegistered ==
    /\ registerRc = "NOT_CONNECTED"
    /\ ~(MQTTAsync_isConnected /\ hasSubscribed)
    /\ Len(properties) = 1

\* C7: whenever connect returns SUCCESS the client is READY (stated for a
\* client whose topic contract can be read).
C7_ConnectReturnsReady ==
    [][ ( /\ ContractReadable
          /\ pcConnect = "check"
          /\ pcConnect' = "idle"
          /\ connectRc' = "SUCCESS" ) =>
          (mqtt' = "connected" /\ hasSubscribed') ]_vars

\* the (action, status) the topic of a reply stands for
ExpectedReply(topicName) ==
    CASE topicName = TopicContract.updateAccepted -> <<"SHADOW_UPDATE", "SHADOW_ACK_ACCEPTED">>
      [] topicName = TopicContract.updateRejected -> <<"SHADOW_UPDATE", "SHADOW_ACK_REJECTED">>
      [] topicName = TopicContract.getAccepted    -> <<"SHADOW_GET", "SHADOW_ACK_ACCEPTED">>
      [] topicName = TopicContract.getRejected    -> <<"SHADOW_GET", "SHADOW_ACK_REJECTED">>
      [] topicName = TopicContract.deleteAccepted -> <<"SHADOW_DELETE", "SHADOW_ACK_ACCEPTED">>
      [] topicName = TopicContract.deleteRejected -> <<"SHADOW_DELETE", "SHADOW_ACK_REJECTED">>

\* C8: a message on each of the six reply topics is classified as its
\* (action, status) pair, and when it carries the id of a pending request
\* that request is completed with this status: its callback is called and
\* its slot freed.
C8_RepliesClassifiedAndCompleted ==
    [][ /\ \A topicName \in ReplyTopics, payload \in FullPayloads :
             ( /\ Deliver(topicName, payload)
               /\ \E i \in Occupied(vault) :
                     /\ vault[i].requestId = payload.requestId
                     /\ vault[i].action = ExpectedReply(topicName)[1] )
             => /\ pcTransport' = "fire"
                /\ resp'.action = ExpectedReply(topicName)[1]
                /\ resp'.status = ExpectedReply(topicName)[2]
                /\ vault[resp'.i].requestId = payload.requestId
        /\ (pcTransport = "fire" /\ pcTransport' = "idle") =>
             /\ acks' = [ acks EXCEPT ![vault[resp.i].callbackContext] = @ + 1 ]
             /\ vault'[resp.i].free ]_vars

\* C9: a reply completes a pending request if and only if it carries the
\* request's id: a reply whose id matches no occupied slot returns
\* NO_MATCHING_IN_FLIGHT_MESSAGE, calls no callback and leaves the table as it
\* is; a reply that carries r finds the slot of r, and completes that slot and
\* no other.
C9_ReplyCompletesOnlyItsRequest ==
    [][ /\ \A topicName \in { TopicContract.updateAccepted,
                              TopicContract.updateRejected },
              payload \in TimedReplies :
             Deliver(topicName, payload) =>
               LET hit == { i \in Occupied(vault) :
                              IdIs(payload.requestId, vault[i].requestId) }
               IN IF hit = {}
                    THEN /\ handleRc' = "NO_MATCHING_IN_FLIGHT_MESSAGE"
                         /\ pcTransport' = "idle"
                         /\ acks' = acks
                         /\ vault' = vault
                    ELSE /\ pcTransport' = "fire"
                         /\ resp'.i \in hit
        /\ (pcTransport = "fire" /\ (pcTransport' # pcTransport \/ crashed' # crashed)) =>
             /\ ~crashed'
             /\ acks' = [ acks EXCEPT ![vault[resp.i].callbackContext] = @ + 1 ]
             /\ vault' = [ vault EXCEPT ![resp.i].free = TRUE ] ]_vars

Applicable(k, desired) ==
    properties[k].key = NULL \/ HasProperty(desired, properties[k].key)

\* C11: a delta's handlers are called in registration order, each at most
\* once; the first handler that returns an error is the last one called; and
\* every applicable handler registered before the end of the iteration is
\* called exactly once
C11_HandlersInOrderUntilError ==
    [][ (Deliver(TopicContract.delta, delta') /\ ~crashed') =>
            LET calls == deltaLog'
                desired == GetDesired(delta')
                stop == IF LoopError(calls) # NoError
                          THEN calls[Len(calls)].handler
                          ELSE Len(properties)
            IN /\ \A a, b \in 1..Len(calls) :
                    a < b => calls[a].handler < calls[b].handler
               /\ \A a \in 1..Len(calls) :
                    a < Len(calls) => calls[a].error = NoError
               /\ \A h \in 1..Len(properties) :
                    (h <= stop /\ Applicable(h, desired)) =>
                      Cardinality({ a \in 1..Len(calls) : calls[a].handler = h }) = 1
               /\ \A a \in 1..Len(calls) : calls[a].handler <= stop ]_vars

\* the first of two handlers returned an error and the second, a root
\* handler, was not called
C11_StoppedAtFirstError ==
    /\ Len(properties) = 2
    /\ properties[2].key = NULL
    /\ Len(deltaLog) = 1
    /\ deltaLog[1].handler = 1
    /\ deltaLog[1].error # NoError


\* ---- C12
\* C12: a root handler is called with (NULL, the whole desired object); a
\* keyed handler is called only when desired has its key, with the key and
\* the item under it; a handler whose key is absent is not called, and the
\* iteration goes on past it
C12_HandlerGetsItsProperty ==
    [][ (Deliver(TopicContract.delta, delta') /\ ~crashed') =>
            LET calls == deltaLog'
                desired == GetDesired(delta')
            IN /\ \A a \in 1..Len(calls) :
                    LET key == properties[calls[a].handler].key IN
                    /\ calls[a].name = key
                    /\ calls[a].item = key
                    /\ calls[a].of = desired
                    /\ key # NULL => HasProperty(desired, key)
               /\ \A h \in 1..Len(properties) :
                    ~Applicable(h, desired) =>
                      \A a \in 1..Len(calls) : calls[a].handler # h
               /\ LoopError(calls) = NoError =>
                    \A h \in 1..Len(properties) :
                      Applicable(h, desired) =>
                        \E a \in 1..Len(calls) : calls[a].handler = h ]_vars

\* the first handler's key is not in the desired object: it was passed over
\* and the second handler, a root handler, was called
C12_AbsentKeyPassedOver ==
    /\ Len(properties) = 2
    /\ properties[1].key = "k"
    /\ properties[2].key = NULL
    /\ delta.desired.present
    /\ "k" \notin delta.desired.keys
    /\ Len(deltaLog) = 1
    /\ deltaLog[1].handler = 2
    /\ deltaLog[1].name = NULL

\* ---- C13
\* C13: when a handler returns an error (code, message) for a delta that
\* carries request id r, exactly one message goes to the transport's publish
\* call, on delta/rejected, with that code, that message and r; when no
\* handler returns an error, nothing is published for the delta
C13_ErrorPublishedOnceOnDeltaRejected ==
    [][ (/\ Deliver(TopicContract.delta, delta')
         /\ cJSON_GetObjectItem(delta', "requestId") # NoItem
         /\ ~crashed') =>
            LET error == LoopError(deltaLog') IN
            IF error # NoError
              THEN /\ Len(outbox') = 1
                   /\ outbox'[1].topic = TopicContract.deltaRejected
                   /\ outbox'[1].requestId = delta'.requestId
                   /\ outbox'[1].code = error.code
                   /\ outbox'[1].message = error.message
              ELSE outbox' = <<>> ]_vars

\* the second handler rejected a delta with request id x and the rejection
\* was accepted by the transport
C13_RejectionPublished ==
    /\ delta.requestId = <<"x">>
    /\ Len(deltaLog) = 2
    /\ deltaLog[2].error = UserDefinedError(2)
    /\ Len(outbox) = 1
    /\ outbox[1].code = UserDefinedError(2).code
    /\ outbox[1].rc = "MQTTASYNC_SUCCESS"

\* ---- C14
\* the seven topics of the subscription the specification describes
SevenTopics ==
    { TopicContract.updateAccepted, TopicContract.updateRejected,
      TopicContract.getAccepted, TopicContract.getRejected,
      TopicContract.deleteAccepted, TopicContract.deleteRejected,
      TopicContract.delta }

\* C14: the topics the client subscribes to at connect are exactly the seven
\* distinct topics update/get/delete accepted and rejected, and delta
C14_SubscribesSevenTopics ==
    (MQTTAsync_isConnected /\ hasSubscribed /\ subscribed # {}) =>
      (Cardinality(subscribed) = SUB_TOPIC_COUNT /\ subscribed = SevenTopics)

\* ---- C15
\* C15: the steps of device_management_destroy call no in-flight callback
\* and leave the table alone; once destroy has returned the reaper is not
\* inside in_flight_message_house_keep of the client, whatever the
\* interleaving of the two threads was; from then on no callback is called
\* and the table is neither locked nor changed; nothing dies on freed memory
C15_ReaperNeverVisitsDestroyedClient ==
    /\ [](pcDestroy = "returned" => (pcReaper = "sleep" /\ ~crashed))
    /\ [][ /\ (DestroyRemove \/ DestroyFree) => (acks' = acks /\ vault' = vault)
           /\ pcDestroy = "returned" =>
                (acks' = acks /\ vault' = vault /\ messagesMutex' = messagesMutex)
       ]_vars

\* destroy has returned while a request was still pending, the reaper has
\* woken after the request's deadline, and the request's callback was never
\* called
C15_DestroyedWithPendingRequest ==
    /\ pcDestroy = "returned"
    /\ ~vault[1].free
    /\ vault[1].callback # NULL
    /\ acks[vault[1].callbackContext] = 0
    /\ clock - vault[1].at >= (vault[1].timeout + 2) * Res
    /\ wakeAt > vault[1].at + (vault[1].timeout + 2) * Res

\* ---- C16
\* C16: no inbound message kills the process: a payload that does not parse,
\* a delta without requestId or without desired, a rejected reply without
\* code or message are dropped
C16_MalformedInputNeverCrashes ==
    [][ \A topicName \in DeltaTopics \cup ReplyTopics,
           payload \in DeltaPayloads \cup Payloads :
          Deliver(topicName, payload) => ~crashed' ]_vars

\* ---- C17
\* C17: a message on one of the six reply topics goes to in-flight
\* completion and to no delta handler; a message on the delta topic goes to
\* delta handling and neither locks nor changes the in-flight table; a
\* message on any other topic (delta/rejected, update) is dropped with a
\* log record, calling no request callback and no delta handler
C17_DispatchedToExactlyOne ==
    [][ \A topicName \in DispatchTopics, payload \in DispatchPayloads :
          (Deliver(topicName, payload) /\ ~crashed') =>
            IF topicName \in ReplyTopics
              THEN /\ handleRc' # "Unexpected topic"
                   /\ UNCHANGED deltaVars
            ELSE IF topicName = TopicContract.delta
              THEN /\ handleRc' = "delta"
                   /\ UNCHANGED << vault, messagesMutex, acks, pcTransport, resp >>
            ELSE /\ handleRc' = "Unexpected topic"
                 /\ UNCHANGED deltaVars
                 /\ UNCHANGED << vault, messagesMutex, acks, pcTransport, resp >>
      ]_vars

\* ---- C18
\* C18: the delta registry only grows by appending: its length never
\* decreases, the entries it has are never modified or reordered, it never
\* holds more than MAX_SHADOW_PROPERTY_HANDLER entries, and register_delta on
\* a full registry returns TOO_MANY_SHADOW_PROPERTY_HANDLER and leaves it
\* unchanged
C18_RegistryAppendOnlyAndBounded ==
    [][ /\ Len(properties') >= Len(properties)
        /\ \A i \in 1..Len(properties) : properties'[i] = properties[i]
        /\ Len(properties') <= MAX_SHADOW_PROPERTY_HANDLER
        /\ \A key \in Keys :
             (/\ RegisterDelta(key)
              /\ device_management_is_connected2
              /\ Len(properties) >= MAX_SHADOW_PROPERTY_HANDLER) =>
               (/\ registerRc' = "TOO_MANY_SHADOW_PROPERTY_HANDLER"
                /\ properties' = properties) ]_vars

\* a full registry with two different entries has refused one more handler
C18_FullRegistryRefused ==
    /\ Len(properties) = MAX_SHADOW_PROPERTY_HANDLER
    /\ properties[1].key # properties[Len(properties)].key
    /\ registerRc = "TOO_MANY_SHADOW_PROPERTY_HANDLER"

\* ---- C19
\* C19: mqtt_on_connection_lost changes c->hasSubscribed and nothing else of
\* the client: every in-flight entry, the callback counts, the registry and
\* the threads' positions stay as they are; the reaper goes on expiring
\* entries whatever the connection state, so no entry stays pending two
\* seconds past its timeout; and a reply that arrives for a pending update,
\* before the loss or after the reconnect, reaches its entry
C19_ConnectionLostKeepsInFlight ==
    /\ [][ mqtt_on_connection_lost =>
             /\ ~hasSubscribed'
             /\ UNCHANGED << engineVars, deltaVars, groupVars, properties,
                             registerRc, errorMessage, topicContract >> ]_vars
    /\ [](\A i \in Occupied(vault) :
            clock - vault[i].at < (vault[i].timeout + 2) * Res)
    /\ [][ \A topicName \in { TopicContract.updateAccepted,
                              TopicContract.updateRejected },
              payload \in LostReplies :
             (/\ MatchingSlots(vault, payload.requestId) # {}
              /\ UNCHANGED << vault, clock, nextUuid, pcCaller, published, pcReaper,
                              acks, mqtt, hasSubscribed, onConnectedDue >>
              /\ Deliver(topicName, payload)) =>
               (/\ pcTransport' = "fire"
                /\ resp'.i \in MatchingSlots(vault, payload.requestId)) ]_vars

\* while the transport is disconnected the reaper is about to call the
\* timeout callback of a request that was published before the loss
C19_TimeoutWhileDisconnected ==
    /\ mqtt = "connecting"
    /\ ~hasSubscribed
    /\ pcReaper = "fire"
    /\ ~vault[ri].free
    /\ [ requestId |-> vault[ri].requestId ] \in published

\* ---- C20
\* request n is in the table, its send has returned, and its message did not
\* reach the broker
PublishFailed(n) ==
    /\ pcCaller = "idle"
    /\ \E i \in Occupied(vault) :
         /\ vault[i].callbackContext = n
         /\ [ requestId |-> vault[i].requestId ] \notin published

\* C20: a publish that fails, at once or through mqtt_on_publish_failure,
\* leaves the inserted entry in place (the send returns SUCCESS with the
\* slot occupied); no reply completes an entry whose message did not reach
\* the broker; its callback is later called by the reaper, with status
\* timeout, and never more than once
C20_FailedPublishEndsInTimeout ==
    /\ [][ (SendPublish /\ [ requestId |-> call.requestId ] \notin published') =>
             /\ vault' = vault
             /\ \E i \in Occupied(vault') : vault'[i].requestId = call.requestId
             /\ lastRc' = "SUCCESS" ]_vars
    /\ [][ HandleFire =>
             [ requestId |-> vault[resp.i].requestId ] \in published ]_vars
    /\ [](\A n \in Requests : acks[n] <= 1)
    /\ \A n \in 1..TimedRequests : PublishFailed(n) ~> (acks[n] = 1)

\* the callback of a request whose publish failed has been called once, the
\* request never reached the broker
C20_TimedOutAfterFailedPublish ==
    /\ acks[1] = 1
    /\ [ requestId |-> uuid_unparse(1) ] \notin published
    /\ lastRc = "SUCCESS"
    /\ mqtt = "connected"
    /\ vault[1].free
    /\ vault[1].callbackContext = 1

\* ---- C21
\* C21: the subscription flag, and with it READY, turns true only in a step
\* that leaves the subscription of the current connection granted by the
\* broker (a subscribe that was refused or timed out never raises it), and
\* connection-lost leaves the flag false
C21_ReadyOnlyAfterSubscribeOk ==
    /\ [][ (~hasSubscribed /\ hasSubscribed') => subscribed' # {} ]_vars
    /\ [][ mqtt_on_connection_lost => ~hasSubscribed' ]_vars

\* ---- C22
Holds(t) == { m \in Mutexes : Owner(m) = t }

\* client-registry, then per-client, then in-flight or delta
Rank(m) ==
    CASE m = "registry" -> 1
      [] m = "client" -> 2
      [] m = "messages" -> 3
      [] m = "properties" -> 3

\* thread t is inside pthread_mutex_lock of a mutex another thread owns
Blocked(t) ==
    /\ running[t] # Idle
    /\ NextEvent(t).kind = "lock"
    /\ ~MutexFree(Owner(NextEvent(t).mutex))

\* the threads t waits for: the owner of the mutex it wants, the thread that
\* one waits for, and so on
RECURSIVE WaitChain(_, _)
WaitChain(t, n) ==
    IF n = 0 \/ ~Blocked(t)
      THEN {}
      ELSE LET u == Owner(NextEvent(t).mutex)
           IN  {u} \cup WaitChain(u, n - 1)

\* C22: a thread acquires a mutex only while every mutex it holds ranks
\* before it in the order client-registry, per-client, in-flight or delta;
\* no thread holds the in-flight and the delta mutex together; and no state
\* is a deadlock: no thread waits, directly or through others, for itself,
\* and whenever a thread is inside a function some such thread can go on
C22_LockOrderNoDeadlock ==
    /\ [][ \A t \in LockThreads, m \in Mutexes :
             (LockStep(t) /\ running[t] # Idle /\ NextEvent(t) = Lock(m)) =>
               \A h \in Holds(t) : Rank(h) < Rank(m) ]_vars
    /\ [](\A t \in LockThreads : ~({"messages", "properties"} \subseteq Holds(t)))
    /\ [](\A t \in LockThreads : t \notin WaitChain(t, Cardinality(LockThreads)))
    /\ []((\E t \in LockThreads : running[t] # Idle) =>
            (\E t \in LockThreads : running[t] # Idle /\ ~Blocked(t)))

\* the reaper holds the registry and the in-flight mutex, the transport
\* waits for the in-flight mutex, one caller waits for the registry and the
\* other holds the delta mutex
C22_ReaperHoldsTwoOthersWait ==
    /\ Holds("reaper") = {"registry", "messages"}
    /\ Blocked("transport")
    /\ NextEvent("transport").mutex = "messages"
    /\ Blocked("caller1")
    /\ NextEvent("caller1").mutex = "registry"
    /\ Holds("caller2") = {"properties"}

\* ---- C23
\* C23: every client for which device_management_create returned SUCCESS
\* and which was not destroyed is in allClients.members, after any number
\* of creates; so a pass of the reaper that starts while this client is
\* such a client enters in_flight_message_house_keep for it
C23_CreatedClientIsRegistered ==
    /\ [](\A client \in live : \E i \in 1..MAX_CLIENT : members[i] = client)
    /\ [][ (ReaperWake /\ "c" \in live) => pcReaper' = "keep" ]_vars

\* ---- C24
\* C24: whenever a request's callback is called, on an accepted or rejected
\* reply as on a timeout, the action it is given is the action stored in
\* the request's in-flight entry, whatever topic the reply came on
C24_CallbackGetsRecordedAction ==
    /\ [][ (HandleFire /\ acks' # acks) =>
             ResponseCall(resp, vault[resp.i]).action = vault[resp.i].action ]_vars
    /\ [][ (ReaperFire /\ acks' # acks) =>
             TimeoutCall(vault[ri]).action = vault[ri].action ]_vars

\* ---- C25
\* C25: an entry whose callback is NULL is completed without a call: on a
\* reply as on a timeout the slot is freed, no callback is counted and the
\* process goes on
C25_NullCallbackNeverCalled ==
    /\ [][ (HandleFire /\ vault[resp.i].callback = NULL) =>
             (~crashed' /\ vault'[resp.i].free /\ acks' = acks) ]_vars
    /\ [][ (ReaperFire /\ vault[ri].callback = NULL) =>
             (~crashed' /\ vault'[ri].free /\ acks' = acks) ]_vars

====
